---- MODULE Spec2Model ----
(***************************************************************************)
(* RLZ library: the registry-backed value store                           *)
(* (win/lib/rlz_value_store_registry.cc) and the financial ping           *)
(* scheduler / request builder (trunk/lib/financial_ping.cc).             *)
(*                                                                         *)
(* The registry is modelled as a set of keys (paths) and a set of values  *)
(* (key, name, type, data).  Every store method is an operator from a     *)
(* registry to a registry and a result; every action is one whole call.   *)
(***************************************************************************)
EXTENDS Integers, Sequences, FiniteSets, TLC

VARIABLES reg, brand, now, ret, form, lk, net

vars == <<reg, brand, now, ret, form, lk, net>>

----------------------------------------------------------------------------
(* Bounds of the model *)

\* Width in bits of the model's time words (int64 / uint64 in the code).
TimeBits == 5

\* One past the last access point of the AccessPoint enumeration.
LAST_ACCESS_POINT == 3

----------------------------------------------------------------------------
(* Enumerations and constants *)

NULL == "<NULL>"

NO_ACCESS_POINT == 0

\* One product of the Product enumeration and one value outside it.
Products == {"CHROME", "NO_SUCH_PRODUCT"}

Brands == {"", "TEST"}

Events == {"I7I", "W1S"}

RlzValues == {"", "1T4_____en__252"}

\* Length in characters of the strings the model stores.
StrLen(s) == IF s = "" THEN 0 ELSE 15

KEY_READ == "KEY_READ"

KEY_WRITE == "KEY_WRITE"

kLibKeyName == <<"Software", "Google", "Common", "Rlz">>

kGoogleKeyName == <<"Software", "Google">>

kGoogleCommonKeyName == <<"Software", "Google", "Common">>

kRlzsSubkeyName == "RLZs"

kEventsSubkeyName == "Events"

kStatefulEventsSubkeyName == "StatefulEvents"

kPingTimesSubkeyName == "PTimes"

\* lib_values: 24 hours with events, 7 times as long without (scaled to
\* the model's time words).
kEventsPingInterval == 2

kNoEventsPingInterval == 7 * kEventsPingInterval

----------------------------------------------------------------------------
(* Fixed-width arithmetic *)

RECURSIVE Pow2(_)
Pow2(n) == IF n = 0 THEN 1 ELSE 2 * Pow2(n - 1)

MaxInt64 == Pow2(TimeBits - 1) - 1

MinInt64 == 0 - Pow2(TimeBits - 1)

\* uint64 -> int64 conversion of a value taken modulo 2^TimeBits.
ToInt64(x) ==
  LET m == x % Pow2(TimeBits)
  IN  IF m > MaxInt64 THEN m - Pow2(TimeBits) ELSE m

\* uint64 now = GetSystemTimeAsInt64(); int64 interval = now - last_ping;
Interval(clock, last_ping) == ToInt64(clock - last_ping)

----------------------------------------------------------------------------
(* Name tables *)

\* Every product of the enumeration given the same name.
GetProductName_SameName(product) ==
  IF product \in {"IE_TOOLBAR", "TOOLBAR_NOTIFIER", "PACK", "DESKTOP", "CHROME",
                  "FF_TOOLBAR", "QSB_WIN", "WEBAPPS", "PINYIN_IME", "PARTNER"}
    THEN "C" ELSE NULL

GetProductName(product) ==
  CASE product = "IE_TOOLBAR"       -> "T"
    [] product = "TOOLBAR_NOTIFIER" -> "P"
    [] product = "PACK"             -> "U"
    [] product = "DESKTOP"          -> "D"
    [] product = "CHROME"           -> "C"
    [] product = "FF_TOOLBAR"       -> "B"
    [] product = "QSB_WIN"          -> "K"
    [] product = "WEBAPPS"          -> "W"
    [] product = "PINYIN_IME"       -> "N"
    [] product = "PARTNER"          -> "V"
    [] OTHER                        -> NULL

APNames == <<"I7", "W1", "T4", "C1", "I8">>

GetAccessPointName(ap) ==
  IF ap \in 1 .. (LAST_ACCESS_POINT - 1) /\ ap <= Len(APNames)
    THEN APNames[ap] ELSE NULL

\* A NULL value name passed to the registry API names the key's default
\* value.
ValueName(name) == IF name = NULL THEN "" ELSE name

----------------------------------------------------------------------------
(* The registry *)

EmptyRegistry == [keys |-> {<<"Software">>}, vals |-> {}]

Prefixes(path) == {SubSeq(path, 1, n) : n \in 1 .. Len(path)}

InvalidKey == [valid |-> FALSE, path |-> <<>>]

\* RegKey::Create: creates the key and every missing ancestor.
RegCreate(r, path) == [r EXCEPT !.keys = @ \cup Prefixes(path)]

RegValue(r, key, name) ==
  {v \in r.vals : v.key = key.path /\ v.name = ValueName(name)}

RegHasValue(r, key, name) == key.valid /\ RegValue(r, key, name) # {}

RegSetValue(r, key, name, type, num, str) ==
  [r EXCEPT !.vals = (@ \ RegValue(r, key, name)) \cup
     {[key |-> key.path, name |-> ValueName(name), type |-> type,
       num |-> num, str |-> str]}]

RegDeleteValue(r, key, name) ==
  IF key.valid THEN [r EXCEPT !.vals = @ \ RegValue(r, key, name)] ELSE r

\* Size in bytes of a value's data, as far as the readers distinguish it.
DataSize(v) ==
  CASE v.type = "QWORD" -> 8
    [] v.type = "DWORD" -> 4
    [] OTHER            -> 2 * (StrLen(v.str) + 1)

BrandKeyName(b) == IF b = "TEST" THEN "_TEST" ELSE "_"

\* The brand left out of the key's location.
AppendBrandToString_Ignored(path, b) == path

AppendBrandToString(path, b) ==
  IF b # "" THEN Append(path, BrandKeyName(b)) ELSE path

\* Every access creating the key.
OpenOrCreate_AlwaysCreate(r, loc, access) ==
  [ok |-> TRUE, key |-> [valid |-> TRUE, path |-> loc],
   reg |-> RegCreate(r, loc)]

\* Opens (KEY_READ) or creates (KEY_WRITE) the key at loc.
OpenOrCreate(r, loc, access) ==
  IF access = KEY_WRITE
    THEN [ok |-> TRUE, key |-> [valid |-> TRUE, path |-> loc],
          reg |-> RegCreate(r, loc)]
    ELSE IF loc \in r.keys
      THEN [ok |-> TRUE, key |-> [valid |-> TRUE, path |-> loc], reg |-> r]
      ELSE [ok |-> FALSE, key |-> InvalidKey, reg |-> r]

GetRegKey(r, b, name, access) ==
  OpenOrCreate(r, AppendBrandToString(Append(kLibKeyName, name), b), access)

GetPingTimesRegKey(r, b, access) ==
  GetRegKey(r, b, kPingTimesSubkeyName, access)

GetAccessPointRlzsRegKey(r, b, access) ==
  GetRegKey(r, b, kRlzsSubkeyName, access)

\* product = NULL stands for the call without a product.
GetEventsRegKey(r, b, event_type, product, access) ==
  LET base == AppendBrandToString(Append(kLibKeyName, event_type), b)
  IN  IF product # NULL /\ GetProductName(product) = NULL
        THEN [ok |-> FALSE, key |-> InvalidKey, reg |-> r]
        ELSE OpenOrCreate(r,
               IF product # NULL
                 THEN Append(base, GetProductName(product)) ELSE base,
               access)

----------------------------------------------------------------------------
(* RlzValueStoreRegistry: ping times *)

\* write_ok: whether the registry's WriteValue reports ERROR_SUCCESS.
WritePingTime(r, b, product, time, write_ok) ==
  LET k == GetPingTimesRegKey(r, b, KEY_WRITE)
  IN  IF k.ok /\ write_ok
        THEN [reg |-> RegSetValue(k.reg, k.key, GetProductName(product),
                                  "QWORD", time, ""),
              result |-> TRUE]
        ELSE [reg |-> k.reg, result |-> FALSE]

\* RegKey::ReadInt64: the value must be a REG_QWORD of 8 bytes.
ReadInt64(r, key, name) ==
  IF RegHasValue(r, key, name)
     /\ \A v \in RegValue(r, key, name) : v.type = "QWORD" /\ DataSize(v) = 8
    THEN [ok |-> TRUE, value |-> (CHOOSE v \in RegValue(r, key, name) : TRUE).num]
    ELSE [ok |-> FALSE, value |-> 0]

ReadPingTime(r, b, product) ==
  LET k == GetPingTimesRegKey(r, b, KEY_READ)
      v == ReadInt64(r, k.key, GetProductName(product))
  IN  IF k.ok /\ v.ok
        THEN [found |-> TRUE, time |-> v.value]
        ELSE [found |-> FALSE, time |-> 0]

\* ClearPingTime without its verification step.
ClearPingTime_Unverified(r, b, product, delete_ok) ==
  LET k == GetPingTimesRegKey(r, b, KEY_WRITE)
      value_name == GetProductName(product)
  IN  [reg |-> IF delete_ok THEN RegDeleteValue(k.reg, k.key, value_name)
                            ELSE k.reg,
       result |-> TRUE]

\* delete_ok: whether the registry's DeleteValue removes the value.
ClearPingTime(r, b, product, delete_ok) ==
  LET k == GetPingTimesRegKey(r, b, KEY_WRITE)
      value_name == GetProductName(product)
      r2 == IF delete_ok THEN RegDeleteValue(k.reg, k.key, value_name)
                         ELSE k.reg
      \* Verify deletion: ReadValue into an 8-byte buffer.
      still == RegHasValue(r2, k.key, value_name)
               /\ \A v \in RegValue(r2, k.key, value_name) : DataSize(v) <= 8
  IN  [reg |-> r2, result |-> ~still]

----------------------------------------------------------------------------
(* RlzValueStoreRegistry: product events *)

AddProductEvent(r, b, product, event_rlz, write_ok) ==
  LET k == GetEventsRegKey(r, b, kEventsSubkeyName, product, KEY_WRITE)
  IN  IF k.key.valid /\ write_ok
        THEN [reg |-> RegSetValue(k.reg, k.key, event_rlz, "DWORD", 1, ""),
              result |-> TRUE]
        ELSE [reg |-> k.reg, result |-> FALSE]

ReadProductEvents(r, b, product) ==
  LET k == GetEventsRegKey(r, b, kEventsSubkeyName, product, KEY_READ)
  IN  IF ~k.key.valid
        THEN [ok |-> FALSE, events |-> {}]
        ELSE [ok |-> TRUE,
              events |-> {v.name : v \in {w \in r.vals : w.key = k.key.path}}]

\* RegKey::ReadValueDW: the value must be a REG_DWORD of 4 bytes.
ReadValueDW(r, key, name) ==
  RegHasValue(r, key, name)
  /\ \A v \in RegValue(r, key, name) : v.type = "DWORD" /\ DataSize(v) = 4

ClearProductEvent(r, b, product, event_rlz, delete_ok) ==
  LET k == GetEventsRegKey(r, b, kEventsSubkeyName, product, KEY_WRITE)
      r2 == IF delete_ok THEN RegDeleteValue(k.reg, k.key, event_rlz)
                         ELSE k.reg
  IN  [reg |-> r2, result |-> ~ReadValueDW(r2, k.key, event_rlz)]

\* rlz_lib's GetProductEventsAsCgi: reports whether the product has any
\* pending event and renders them as the events fragment.  It takes the
\* store lock again (re-entrant in the calling thread) and reads the store.
GetProductEventsAsCgi(r, b, product) ==
  LET ev == ReadProductEvents(r, b, product)
  IN  [result |-> ev.ok /\ ev.events # {}, cgi |-> ev.events]

----------------------------------------------------------------------------
(* RlzValueStoreRegistry: stateful events, whole-product clears *)

\* RegKey::DeleteKey: removes the key with everything below it.
RegDeleteKey(r, path) ==
  [keys |-> {k \in r.keys : path \notin Prefixes(k)},
   vals |-> {v \in r.vals : path \notin Prefixes(v.key)}]

\* The product's key removed from both event containers, whichever was named.
ClearAllProductEventValues_BothKinds(r, b, product, key, delete_ok) ==
  IF GetProductName(product) = NULL
    THEN [reg |-> r, result |-> FALSE]
    ELSE LET k == GetEventsRegKey(r, b, key, NULL, KEY_WRITE)
             product_key == Append(k.key.path, GetProductName(product))
             other_key ==
               Append(AppendBrandToString(
                        Append(kLibKeyName,
                               IF key = kEventsSubkeyName
                                 THEN kStatefulEventsSubkeyName
                                 ELSE kEventsSubkeyName), b),
                      GetProductName(product))
             r2 == IF delete_ok
                     THEN RegDeleteKey(RegDeleteKey(k.reg, product_key),
                                       other_key)
                     ELSE k.reg
         IN  [reg |-> r2, result |-> product_key \notin r2.keys]

\* delete_ok: whether the registry's DeleteKey removes the key.
ClearAllProductEventValues(r, b, product, key, delete_ok) ==
  IF GetProductName(product) = NULL
    THEN [reg |-> r, result |-> FALSE]
    ELSE LET k == GetEventsRegKey(r, b, key, NULL, KEY_WRITE)
             product_key == Append(k.key.path, GetProductName(product))
             r2 == IF delete_ok THEN RegDeleteKey(k.reg, product_key)
                                ELSE k.reg
         IN  \* Verify that the key no longer exists.
             [reg |-> r2, result |-> product_key \notin r2.keys]

ClearAllProductEvents(r, b, product, delete_ok) ==
  ClearAllProductEventValues(r, b, product, kEventsSubkeyName, delete_ok)

AddStatefulEvent(r, b, product, event_rlz, write_ok) ==
  LET k == GetEventsRegKey(r, b, kStatefulEventsSubkeyName, product, KEY_WRITE)
  IN  IF k.ok /\ write_ok
        THEN [reg |-> RegSetValue(k.reg, k.key, event_rlz, "DWORD", 1, ""),
              result |-> TRUE]
        ELSE [reg |-> k.reg, result |-> FALSE]

IsStatefulEvent(r, b, product, event_rlz) ==
  LET k == GetEventsRegKey(r, b, kStatefulEventsSubkeyName, product, KEY_READ)
  IN  ReadValueDW(r, k.key, event_rlz)

ClearAllStatefulEvents(r, b, product, delete_ok) ==
  ClearAllProductEventValues(r, b, product, kStatefulEventsSubkeyName,
                             delete_ok)

----------------------------------------------------------------------------
(* RlzValueStoreRegistry::CollectGarbage *)

SubkeyCount(r, path) ==
  Cardinality({k \in r.keys : Len(k) = Len(path) + 1
                               /\ SubSeq(k, 1, Len(path)) = path})

\* DeleteKeyIfEmpty with the test for values left out.
ValueCount_Ignored(r, path) == 0

ValueCount(r, path) == Cardinality({v \in r.vals : v.key = path})

\* delete_ok: whether the registry's DeleteKey removes the (empty) key.
\* seen: what the function found at the key, and whether it removed it.
DeleteKeyIfEmpty(r, path, delete_ok) ==
  LET found == [path |-> path, existed |-> path \in r.keys,
                subkeys |-> SubkeyCount(r, path),
                values |-> ValueCount(r, path), removed |-> FALSE]
  IN  IF path \notin r.keys
        THEN [reg |-> r, result |-> TRUE, seen |-> found]
      ELSE IF SubkeyCount(r, path) > 0
        THEN [reg |-> r, result |-> TRUE, seen |-> found]
      ELSE IF ValueCount(r, path) > 0
        THEN [reg |-> r, result |-> TRUE, seen |-> found]
      ELSE IF delete_ok
        THEN [reg |-> RegDeleteKey(r, path), result |-> TRUE,
              seen |-> [found EXCEPT !.removed = TRUE]]
        ELSE [reg |-> r, result |-> FALSE, seen |-> found]

\* The keys CollectGarbage visits, in its order.
GarbageKeys(b) ==
  <<AppendBrandToString(Append(kLibKeyName, kRlzsSubkeyName), b),
    AppendBrandToString(Append(kLibKeyName, kEventsSubkeyName), b),
    AppendBrandToString(Append(kLibKeyName, kStatefulEventsSubkeyName), b),
    AppendBrandToString(Append(kLibKeyName, kPingTimesSubkeyName), b),
    kLibKeyName, kGoogleCommonKeyName, kGoogleKeyName>>

\* faults: the visits (by position) whose DeleteKey fails.
RECURSIVE CollectFrom(_, _, _, _, _)
CollectFrom(r, keys, i, faults, log) ==
  IF i > Len(keys) THEN [reg |-> r, log |-> log]
  ELSE LET d == DeleteKeyIfEmpty(r, keys[i], i \notin faults)
       IN  CollectFrom(d.reg, keys, i + 1, faults, Append(log, d.seen))

CollectGarbage(r, b, faults) == CollectFrom(r, GarbageKeys(b), 1, faults, <<>>)

----------------------------------------------------------------------------
(* FinancialPing: the scheduler *)

kReadAccess == "kReadAccess"

kWriteAccess == "kWriteAccess"

AccessLevels == {"none", "read", "write"}

\* granted: what the platform's user key grants the process.
HasAccess(granted, type) ==
  IF type = kWriteAccess THEN granted = "write"
                         ELSE granted \in {"read", "write"}

\* The early return for a never-pinged product left out.
NeverPinged_Skipped(rp) == FALSE

\* if (!store->ReadPingTime(product, &last_ping)) return true;
NeverPinged(rp) == ~rp.found

\* The clock-reset test left out.
ClockWasReset_Ignored(interval) == FALSE

\* if (interval < 0) return true;
ClockWasReset(interval) == interval < 0

\* no_delay ignored.
ForcePing_Ignored(no_delay, has_events) == FALSE

\* if (no_delay && has_events) return true;
ForcePing(no_delay, has_events) == no_delay /\ has_events

\* The two intervals swapped.
PingInterval_Swapped(has_events) ==
  IF has_events THEN kNoEventsPingInterval ELSE kEventsPingInterval

PingInterval(has_events) ==
  IF has_events THEN kEventsPingInterval ELSE kNoEventsPingInterval

\* A store produced whatever the lock did.
GetStore_Unlocked(lock_failed) == "RlzValueStoreRegistry"

\* ScopedRlzValueStoreLock: a store is produced unless the lock failed.
GetStore(lock_failed) == IF ~lock_failed THEN "RlzValueStoreRegistry" ELSE NULL

\* The test for a null store left out.
StoreAvailable_NoLockCheck(lock_ok, granted, type) == HasAccess(granted, type)

\* if (!store || !store->HasAccess(type)) return false;
\* lock_ok: whether the lock was acquired.
StoreAvailable(lock_ok, granted, type) ==
  GetStore(~lock_ok) # NULL /\ HasAccess(granted, type)

IsPingTime(r, b, clock, product, no_delay, lock_ok, granted) ==
  IF ~StoreAvailable(lock_ok, granted, kReadAccess) THEN FALSE
  ELSE LET rp == ReadPingTime(r, b, product)
           interval == Interval(clock, rp.time)
           has_events == GetProductEventsAsCgi(r, b, product).result
       IN  IF NeverPinged(rp) THEN TRUE
           ELSE IF ClockWasReset(interval) THEN TRUE
           ELSE IF ForcePing(no_delay, has_events) THEN TRUE
           ELSE interval >= PingInterval(has_events)

UpdateLastPingTime(r, b, clock, product, lock_ok, granted, write_ok) ==
  IF ~StoreAvailable(lock_ok, granted, kWriteAccess)
    THEN [reg |-> r, result |-> FALSE]
    ELSE WritePingTime(r, b, product, clock, write_ok)

ClearLastPingTime(r, b, product, lock_ok, granted, delete_ok) ==
  IF ~StoreAvailable(lock_ok, granted, kWriteAccess)
    THEN [reg |-> r, result |-> FALSE]
    ELSE ClearPingTime(r, b, product, delete_ok)

----------------------------------------------------------------------------
(* RlzValueStoreRegistry: access point RLZ values *)

kMaxRlzLength == 64

\* new_rlz is written as a REG_SZ string.
WriteAccessPointRlz(r, b, access_point, new_rlz, write_ok) ==
  IF GetAccessPointName(access_point) = NULL
    THEN [reg |-> r, result |-> FALSE]
    ELSE LET k == GetAccessPointRlzsRegKey(r, b, KEY_WRITE)
         IN  IF k.key.valid /\ write_ok
               THEN [reg |-> RegSetValue(k.reg, k.key,
                               GetAccessPointName(access_point), "SZ", 0,
                               new_rlz),
                     result |-> TRUE]
               ELSE [reg |-> k.reg, result |-> FALSE]

\* RegKeyReadValue: reads a string value into a buffer of rlz_size chars;
\* on failure size holds what the registry reports as needed.
RegKeyReadValue(r, key, name, rlz_size) ==
  IF ~RegHasValue(r, key, name)
    THEN [ok |-> FALSE, value |-> "", size |-> rlz_size]
    ELSE LET v == CHOOSE w \in RegValue(r, key, name) : TRUE
         IN  IF v.type # "SZ"
               THEN [ok |-> FALSE, value |-> "", size |-> rlz_size]
               ELSE IF StrLen(v.str) + 1 > rlz_size
                 THEN [ok |-> FALSE, value |-> "", size |-> StrLen(v.str) + 1]
                 ELSE [ok |-> TRUE, value |-> v.str, size |-> StrLen(v.str) + 1]

ReadAccessPointRlz(r, b, access_point, rlz_size) ==
  IF GetAccessPointName(access_point) = NULL
    THEN [result |-> FALSE, rlz |-> ""]
    ELSE LET k == GetAccessPointRlzsRegKey(r, b, KEY_READ)
             rd == RegKeyReadValue(r, k.key, GetAccessPointName(access_point),
                                   rlz_size)
         IN  IF ~rd.ok
               THEN [result |-> ~(rd.size > rlz_size), rlz |-> ""]
               ELSE [result |-> TRUE, rlz |-> rd.value]

ClearAccessPointRlz(r, b, access_point, delete_ok) ==
  IF GetAccessPointName(access_point) = NULL
    THEN [reg |-> r, result |-> FALSE]
    ELSE LET k == GetAccessPointRlzsRegKey(r, b, KEY_WRITE)
             name == GetAccessPointName(access_point)
             r2 == IF delete_ok THEN RegDeleteValue(k.reg, k.key, name)
                                ELSE k.reg
         IN  [reg |-> r2, result |-> ~ReadValueDW(r2, k.key, name)]

\* rlz_lib's GetAccessPointRlz: the store's ReadAccessPointRlz under the
\* (re-entrant) store lock.
GetAccessPointRlz(r, b, point, rlz_size) ==
  ReadAccessPointRlz(r, b, point, rlz_size)

----------------------------------------------------------------------------
(* FinancialPing::FormRequest *)

kFinancialPingPath == "/tools/pso/ping"

Piece(k, s) == [k |-> k, s |-> s, ev |-> {}, rlz |-> <<>>]

\* The access points of a list, up to its NO_ACCESS_POINT terminator.
RECURSIVE UpToSentinel(_)
UpToSentinel(list) ==
  IF list = <<>> \/ Head(list) = NO_ACCESS_POINT THEN <<>>
  ELSE <<Head(list)>> \o UpToSentinel(Tail(list))

\* rlz_lib's GetPingParams: the RLZ-exchange-protocol marker and the RLZ
\* value of every access point of the list, as one fragment.
RECURSIVE RlzPairs(_, _, _)
RlzPairs(r, b, points) ==
  IF points = <<>> THEN <<>>
  ELSE LET rd == GetAccessPointRlz(r, b, Head(points), kMaxRlzLength + 1)
           rest == RlzPairs(r, b, Tail(points))
       IN  IF rd.result /\ GetAccessPointName(Head(points)) # NULL
             THEN <<<<GetAccessPointName(Head(points)), rd.rlz>>>> \o rest
             ELSE rest

GetPingParams(r, b, product, access_points) ==
  [result |-> TRUE,
   cgi |-> [k |-> "&rlz", s |-> "rep=2", ev |-> {},
            rlz |-> RlzPairs(r, b, UpToSentinel(access_points))]]

\* The test for an empty RLZ string left out.
HasCurrentRlz_AnyValue(r, b, point) ==
  GetAccessPointRlz(r, b, point, kMaxRlzLength + 1).result

\* if (GetAccessPointRlz(point, rlz, arraysize(rlz)) && rlz[0] != 0)
HasCurrentRlz(r, b, point) ==
  LET rd == GetAccessPointRlz(r, b, point, kMaxRlzLength + 1)
  IN  rd.result /\ rd.rlz # ""

\* The loop over ap = NO_ACCESS_POINT + 1 .. LAST_ACCESS_POINT - 1.
RECURSIVE AllPointsFrom(_, _, _)
AllPointsFrom(r, b, ap) ==
  IF ap >= LAST_ACCESS_POINT THEN <<NO_ACCESS_POINT>>
  ELSE IF HasCurrentRlz(r, b, ap)
    THEN <<ap>> \o AllPointsFrom(r, b, ap + 1)
    ELSE AllPointsFrom(r, b, ap + 1)

AllPoints(r, b) == AllPointsFrom(r, b, NO_ACCESS_POINT + 1)

\* The caller's list ignored.
PingPoints_AlwaysAll(r, b, has_events, access_points) == AllPoints(r, b)

\* has_events ? access_points : all_points
PingPoints(r, b, has_events, access_points) ==
  IF has_events THEN access_points ELSE AllPoints(r, b)

\* The product id emitted before the brand.
RequestHead_IdFirst(product_signature, product_brand, product_id, product_lang) ==
  <<Piece("path", kFinancialPingPath), Piece("?signature", product_signature)>>
  \o (IF product_id # NULL THEN <<Piece("&id", product_id)>> ELSE <<>>)
  \o (IF product_brand # NULL THEN <<Piece("&brand", product_brand)>> ELSE <<>>)
  \o (IF product_lang # NULL THEN <<Piece("&lang", product_lang)>> ELSE <<>>)

\* The signature, brand, product id and language fields.
RequestHead(product_signature, product_brand, product_id, product_lang) ==
  <<Piece("path", kFinancialPingPath), Piece("?signature", product_signature)>>
  \o (IF product_brand # NULL THEN <<Piece("&brand", product_brand)>> ELSE <<>>)
  \o (IF product_id # NULL THEN <<Piece("&id", product_id)>> ELSE <<>>)
  \o (IF product_lang # NULL THEN <<Piece("&lang", product_lang)>> ELSE <<>>)

\* if (has_events && !exclude_machine_id)
WantsMachineId(has_events, exclude_machine_id) ==
  has_events /\ ~exclude_machine_id

\* The request built from line 115 on, once every check has passed.
\* a: the arguments of the call (see FormRequest).
BuildRequest(r, b, a) ==
  LET ev == GetProductEventsAsCgi(r, b, a.product)
      has_events == ev.result
      points == PingPoints(r, b, has_events, a.access_points)
      params == GetPingParams(r, b, a.product, points)
  IN  [request |->
         RequestHead(a.product_signature, a.product_brand, a.product_id,
                     a.product_lang)
         \o (IF has_events
               THEN <<[k |-> "&events", s |-> "", ev |-> ev.cgi,
                       rlz |-> <<>>]>>
               ELSE <<>>)
         \o (IF params.result THEN <<params.cgi>> ELSE <<>>)
         \o (IF WantsMachineId(has_events, a.exclude_machine_id)
                /\ a.machine_id # NULL
               THEN <<Piece("&machineid", a.machine_id)>> ELSE <<>>),
       has_events |-> has_events,
       points |-> points]

\* SupplementaryBranding::GetBrand() != product_brand
BrandMismatch(b, product_brand) == b # product_brand

\* request->clear() left out.
ClearedRequest_Kept(prior) == prior

\* request->clear() at entry.
ClearedRequest(prior) == <<>>

NoCall == [outcome |-> "none", request |-> <<>>, has_events |-> FALSE,
           points |-> <<>>]

\* a: the arguments of the call and what its environment does.
\*   request_null: the request pointer is NULL; prior: what *request held;
\*   points_null: access_points is NULL; lock_ok, granted: the store lock
\*   and the access the store reports; ub: what comparing a std::string with
\*   a NULL char pointer does in this build; machine_id: what GetMachineId
\*   yields, NULL when it fails.
FormRequest(r, b, a) ==
  IF a.request_null
    THEN [NoCall EXCEPT !.outcome = "false", !.request = a.prior]
  ELSE IF ~StoreAvailable(a.lock_ok, a.granted, kReadAccess)
    THEN [NoCall EXCEPT !.outcome = "false",
                        !.request = ClearedRequest(a.prior)]
  ELSE IF a.points_null
    THEN [NoCall EXCEPT !.outcome = "false",
                        !.request = ClearedRequest(a.prior)]
  ELSE IF a.product_signature = NULL
    THEN [NoCall EXCEPT !.outcome = "false",
                        !.request = ClearedRequest(a.prior)]
  ELSE IF b # "" /\ a.product_brand = NULL /\ a.ub = "crash"
    THEN [NoCall EXCEPT !.outcome = "crash",
                        !.request = ClearedRequest(a.prior)]
  ELSE IF b # "" /\ (IF a.product_brand = NULL
                       THEN a.ub = "unequal"
                       ELSE BrandMismatch(b, a.product_brand))
    THEN [NoCall EXCEPT !.outcome = "false",
                        !.request = ClearedRequest(a.prior)]
  ELSE LET built == BuildRequest(r, b, a)
       IN  [outcome |-> "true",
            request |-> ClearedRequest(a.prior) \o built.request,
            has_events |-> built.has_events,
            points |-> built.points]

----------------------------------------------------------------------------
(* What the read-only calls leave in the store *)

\* The registry after IsPingTime: the keys it opens, in the code's order.
IsPingTimeStore(r, b, clock, product, lock_ok, granted) ==
  IF ~StoreAvailable(lock_ok, granted, kReadAccess) THEN r
  ELSE LET k == GetPingTimesRegKey(r, b, KEY_READ)
           rp == ReadPingTime(r, b, product)
       IN  IF NeverPinged(rp) THEN k.reg
           ELSE IF ClockWasReset(Interval(clock, rp.time)) THEN k.reg
           ELSE GetEventsRegKey(k.reg, b, kEventsSubkeyName, product,
                                KEY_READ).reg

\* The registry after FormRequest: the events key and the RLZs key are
\* opened for reading once every check has passed.
FormRequestStore(r, b, a) ==
  IF FormRequest(r, b, a).outcome # "true" THEN r
  ELSE LET e == GetEventsRegKey(r, b, kEventsSubkeyName, a.product, KEY_READ)
       IN  GetAccessPointRlzsRegKey(e.reg, b, KEY_READ).reg

----------------------------------------------------------------------------
(* Inputs of the calls *)

\* Readings of the system clock (FILETIME values are not negative).
ClockValues == {0, kEventsPingInterval, kNoEventsPingInterval, MaxInt64}

\* Times a caller hands to WritePingTime.
TimeInputs == {MinInt64, -1, 0, 1}

\* What comparing a std::string with a NULL pointer may do.
UBOutcomes == {"crash", "unequal", "equal"}

\* Lock and access outcomes seen by a FinancialPing call.
Environments ==
  {[lock_ok |-> l, granted |-> g] : l \in BOOLEAN, g \in AccessLevels}

\* The visits of CollectGarbage whose DeleteKey fails: none, one, or all.
GarbageFaults ==
  {{}} \cup {{i} : i \in 1 .. Len(GarbageKeys(""))}
  \cup {1 .. Len(GarbageKeys(""))}

Junk == <<Piece("junk", "left over")>>

CallerPoints ==
  {<<NO_ACCESS_POINT>>, <<1, NO_ACCESS_POINT>>,
   <<LAST_ACCESS_POINT - 1, 1, NO_ACCESS_POINT>>}

DefaultArgs ==
  [product |-> "CHROME", points_null |-> FALSE,
   access_points |-> <<1, NO_ACCESS_POINT>>, product_signature |-> "sig",
   product_brand |-> NULL, product_id |-> NULL, product_lang |-> NULL,
   exclude_machine_id |-> TRUE, request_null |-> FALSE, prior |-> Junk,
   lock_ok |-> TRUE, granted |-> "read", ub |-> "n/a", machine_id |-> NULL]

\* Calls that reach the argument checks: every combination of arguments,
\* each with left-over content in *request.
CheckedArgs ==
  {[DefaultArgs EXCEPT !.product = p, !.points_null = pn,
      !.access_points = (IF pn THEN <<>> ELSE ap),
      !.product_signature = sg, !.product_brand = br, !.product_id = id,
      !.product_lang = lg, !.exclude_machine_id = ex] :
     p \in Products, pn \in BOOLEAN, ap \in CallerPoints,
     sg \in {NULL, "", "sig"}, br \in {NULL, "", "TEST"},
     id \in {NULL, "id"}, lg \in {NULL, "en"}, ex \in BOOLEAN}

\* Calls that return before reading any argument but request.
UncheckedArgs ==
  {[DefaultArgs EXCEPT !.request_null = TRUE]}
  \cup {[DefaultArgs EXCEPT !.lock_ok = e.lock_ok, !.granted = e.granted] :
          e \in Environments}

FormArgs == CheckedArgs \cup UncheckedArgs

----------------------------------------------------------------------------
(* State *)

----------------------------------------------------------------------------
(* Processes calling FinancialPing under the store lock *)

\* Number of processes sharing the user's store.
NumProcs == 2

Procs == 1 .. NumProcs

\* The calls that open with a ScopedRlzValueStoreLock.
LockedOps ==
  {"IsPingTime", "UpdateLastPingTime", "ClearLastPingTime", "FormRequest",
   "SetURLRequestContext"}

\* LibMutex: the mutex of the user's scope can be taken when no process
\* holds it.
MutexFree(holder) == holder = 0

\* The lock kept past the end of the scope.
ReleaseOnExit_Kept(holder, p) == holder

\* ~ScopedRlzValueStoreLock(): the lock member releases the mutex if this
\* process holds it.
ReleaseOnExit(holder, p) == IF holder = p THEN 0 ELSE holder

\* pc: where the call stands; store: the handle GetStore returned;
\* rp: what ReadPingTime returned; exit: the return statement taken, kept
\* until the process's next call; product: the call's argument where the
\* calls differ in it; now: the local of UpdateLastPingTime.
NoProc ==
  [pc |-> "idle", op |-> "none", store |-> NULL,
   rp |-> [found |-> FALSE, time |-> 0], result |-> FALSE, exit |-> "none",
   product |-> NULL, now |-> 0]

\* holder: the process holding the mutex, 0 when it is free;
\* g_context: whether SetURLRequestContext has stored a context.
NoLocks == [holder |-> 0, proc |-> [p \in Procs |-> NoProc],
            g_context |-> FALSE]

\* Largest number of chunks in a response body that ends.
MaxChunks == 2

\* The two builds of PingServer.
Transports == {"WinInet", "URLFetcher"}

StatusCodes == {200, 404}

\* What the server does with a request: it stays silent, or answers with a
\* status and a body of some chunks, or with a body that never ends.
Servers ==
  {[silent |-> TRUE, status |-> 0, body |-> 0, endless |-> FALSE]}
  \cup {[silent |-> FALSE, status |-> st, body |-> n, endless |-> FALSE] :
          st \in StatusCodes, n \in 0 .. MaxChunks}
  \cup {[silent |-> FALSE, status |-> st, body |-> 0, endless |-> TRUE] :
          st \in StatusCodes}

\* PingServer: no call in progress.
\*   pc: the statement the call has reached; got: the chunks *response
\*   holds; dirty: whether *response still holds what it held at the call;
\*   code: what URLFetcher::GetResponseCode() returns after the loop.
NoPing ==
  [pc |-> "idle", transport |-> "none",
   server |-> [silent |-> TRUE, status |-> 0, body |-> 0, endless |-> FALSE],
   got |-> 0, dirty |-> FALSE, code |-> 0, result |-> FALSE]

NoRet ==
  [op |-> "none", product |-> "", ap |-> 0, str |-> "", time |-> 0,
   flag |-> FALSE, lock_ok |-> FALSE, granted |-> "none", result |-> FALSE,
   log |-> <<>>]

NoForm == [called |-> FALSE, args |-> DefaultArgs, out |-> NoCall]

Idle == ret.op = "none" /\ ~form.called

\* What another namespace of the store may already hold.
OtherNamespace(r, b) ==
  LET r1 == WritePingTime(r, b, "CHROME", 1, TRUE).reg
      r2 == WritePingTime(r1, b, "NO_SUCH_PRODUCT", 0, TRUE).reg
      r3 == AddProductEvent(r2, b, "CHROME", "I7I", TRUE).reg
      r4 == AddStatefulEvent(r3, b, "CHROME", "W1S", TRUE).reg
  IN  WriteAccessPointRlz(r4, b, 1, "1T4_____en__252", TRUE).reg

InitRegistries(b) ==
  {EmptyRegistry} \cup {OtherNamespace(EmptyRegistry, o) : o \in Brands \ {b}}

Init ==
  /\ brand \in Brands
  /\ reg \in InitRegistries(brand)
  /\ now = 0
  /\ ret = NoRet
  /\ form = NoForm
  /\ lk = NoLocks
  /\ net = NoPing

----------------------------------------------------------------------------
(* Actions: one call each *)

\* The caller takes the result; the next call can start.
Return ==
  /\ ~Idle
  /\ ret' = NoRet
  /\ form' = NoForm
  /\ UNCHANGED <<lk, net, reg, brand, now>>

Tick ==
  /\ Idle
  /\ \E t \in ClockValues \ {now} : now' = t
  /\ UNCHANGED <<lk, net, reg, brand, ret, form>>

CallWritePingTime ==
  /\ Idle
  /\ \E p \in Products, t \in TimeInputs, write_ok \in BOOLEAN :
       LET c == WritePingTime(reg, brand, p, t, write_ok)
       IN  /\ reg' = c.reg
           /\ ret' = [NoRet EXCEPT !.op = "WritePingTime", !.product = p,
                                   !.time = t, !.result = c.result]
  /\ UNCHANGED <<lk, net, brand, now, form>>

CallClearPingTime ==
  /\ Idle
  /\ \E p \in Products, delete_ok \in BOOLEAN :
       LET c == ClearPingTime(reg, brand, p, delete_ok)
       IN  /\ reg' = c.reg
           /\ ret' = [NoRet EXCEPT !.op = "ClearPingTime", !.product = p,
                                   !.result = c.result]
  /\ UNCHANGED <<lk, net, brand, now, form>>

CallAddProductEvent ==
  /\ Idle
  /\ \E p \in Products, e \in Events, write_ok \in BOOLEAN :
       LET c == AddProductEvent(reg, brand, p, e, write_ok)
       IN  /\ reg' = c.reg
           /\ ret' = [NoRet EXCEPT !.op = "AddProductEvent", !.product = p,
                                   !.str = e, !.result = c.result]
  /\ UNCHANGED <<lk, net, brand, now, form>>

CallClearProductEvent ==
  /\ Idle
  /\ \E p \in Products, e \in Events, delete_ok \in BOOLEAN :
       LET c == ClearProductEvent(reg, brand, p, e, delete_ok)
       IN  /\ reg' = c.reg
           /\ ret' = [NoRet EXCEPT !.op = "ClearProductEvent", !.product = p,
                                   !.str = e, !.result = c.result]
  /\ UNCHANGED <<lk, net, brand, now, form>>

CallWriteAccessPointRlz ==
  /\ Idle
  /\ \E ap \in NO_ACCESS_POINT .. LAST_ACCESS_POINT, v \in RlzValues,
         write_ok \in BOOLEAN :
       LET c == WriteAccessPointRlz(reg, brand, ap, v, write_ok)
       IN  /\ reg' = c.reg
           /\ ret' = [NoRet EXCEPT !.op = "WriteAccessPointRlz", !.ap = ap,
                                   !.str = v, !.result = c.result]
  /\ UNCHANGED <<lk, net, brand, now, form>>

CallClearAccessPointRlz ==
  /\ Idle
  /\ \E ap \in NO_ACCESS_POINT .. LAST_ACCESS_POINT, delete_ok \in BOOLEAN :
       LET c == ClearAccessPointRlz(reg, brand, ap, delete_ok)
       IN  /\ reg' = c.reg
           /\ ret' = [NoRet EXCEPT !.op = "ClearAccessPointRlz", !.ap = ap,
                                   !.result = c.result]
  /\ UNCHANGED <<lk, net, brand, now, form>>

CallIsPingTime ==
  /\ Idle
  /\ \E p \in Products, no_delay \in BOOLEAN, e \in Environments :
       ret' = [NoRet EXCEPT !.op = "IsPingTime", !.product = p,
                            !.flag = no_delay, !.lock_ok = e.lock_ok,
                            !.granted = e.granted,
                            !.result = IsPingTime(reg, brand, now, p, no_delay,
                                                  e.lock_ok, e.granted)]
       /\ reg' = IsPingTimeStore(reg, brand, now, p, e.lock_ok, e.granted)
  /\ UNCHANGED <<lk, net, brand, now, form>>

CallUpdateLastPingTime ==
  /\ Idle
  /\ \E p \in Products, e \in Environments, write_ok \in BOOLEAN :
       LET c == UpdateLastPingTime(reg, brand, now, p, e.lock_ok, e.granted,
                                   write_ok)
       IN  /\ reg' = c.reg
           /\ ret' = [NoRet EXCEPT !.op = "UpdateLastPingTime",
                                   !.product = p, !.time = now,
                                   !.lock_ok = e.lock_ok,
                                   !.granted = e.granted,
                                   !.result = c.result]
  /\ UNCHANGED <<lk, net, brand, now, form>>

CallClearLastPingTime ==
  /\ Idle
  /\ \E p \in Products, e \in Environments, delete_ok \in BOOLEAN :
       LET c == ClearLastPingTime(reg, brand, p, e.lock_ok, e.granted,
                                  delete_ok)
       IN  /\ reg' = c.reg
           /\ ret' = [NoRet EXCEPT !.op = "ClearLastPingTime",
                                   !.product = p, !.lock_ok = e.lock_ok,
                                   !.granted = e.granted,
                                   !.result = c.result]
  /\ UNCHANGED <<lk, net, brand, now, form>>

CallFormRequest ==
  /\ Idle
  /\ \E a0 \in FormArgs :
       \E ub \in (IF brand # "" /\ a0.product_brand = NULL
                     THEN UBOutcomes ELSE {"n/a"}),
          mid \in (IF a0.exclude_machine_id THEN {NULL}
                                            ELSE {NULL, "MID"}) :
         LET a == [a0 EXCEPT !.ub = ub, !.machine_id = mid]
         IN  /\ form' = [called |-> TRUE, args |-> a,
                         out |-> FormRequest(reg, brand, a)]
             /\ reg' = FormRequestStore(reg, brand, a)
  /\ UNCHANGED <<lk, net, brand, now, ret>>

CallReadPingTime ==
  /\ Idle
  /\ \E p \in Products :
       LET c == ReadPingTime(reg, brand, p)
       IN  /\ reg' = GetPingTimesRegKey(reg, brand, KEY_READ).reg
           /\ ret' = [NoRet EXCEPT !.op = "ReadPingTime", !.product = p,
                                   !.time = c.time, !.result = c.found]
  /\ UNCHANGED <<lk, net, brand, now, form>>

CallClearAllProductEvents ==
  /\ Idle
  /\ \E p \in Products, delete_ok \in BOOLEAN :
       LET c == ClearAllProductEvents(reg, brand, p, delete_ok)
       IN  /\ reg' = c.reg
           /\ ret' = [NoRet EXCEPT !.op = "ClearAllProductEvents",
                                   !.product = p, !.result = c.result]
  /\ UNCHANGED <<lk, net, brand, now, form>>

CallAddStatefulEvent ==
  /\ Idle
  /\ \E p \in Products, e \in Events, write_ok \in BOOLEAN :
       LET c == AddStatefulEvent(reg, brand, p, e, write_ok)
       IN  /\ reg' = c.reg
           /\ ret' = [NoRet EXCEPT !.op = "AddStatefulEvent", !.product = p,
                                   !.str = e, !.result = c.result]
  /\ UNCHANGED <<lk, net, brand, now, form>>

CallIsStatefulEvent ==
  /\ Idle
  /\ \E p \in Products, e \in Events :
       /\ reg' = GetEventsRegKey(reg, brand, kStatefulEventsSubkeyName, p,
                                 KEY_READ).reg
       /\ ret' = [NoRet EXCEPT !.op = "IsStatefulEvent", !.product = p,
                    !.str = e,
                    !.result = IsStatefulEvent(reg, brand, p, e)]
  /\ UNCHANGED <<lk, net, brand, now, form>>

CallClearAllStatefulEvents ==
  /\ Idle
  /\ \E p \in Products, delete_ok \in BOOLEAN :
       LET c == ClearAllStatefulEvents(reg, brand, p, delete_ok)
       IN  /\ reg' = c.reg
           /\ ret' = [NoRet EXCEPT !.op = "ClearAllStatefulEvents",
                                   !.product = p, !.result = c.result]
  /\ UNCHANGED <<lk, net, brand, now, form>>

CallCollectGarbage ==
  /\ Idle
  /\ \E faults \in GarbageFaults :
       LET c == CollectGarbage(reg, brand, faults)
       IN  /\ reg' = c.reg
           /\ ret' = [NoRet EXCEPT !.op = "CollectGarbage", !.log = c.log]
  /\ UNCHANGED <<lk, net, brand, now, form>>

\* A SupplementaryBranding scope is entered or left between calls.
SetBrand ==
  /\ Idle
  /\ \E b \in Brands \ {brand} : brand' = b
  /\ UNCHANGED <<lk, net, reg, now, ret, form>>

----------------------------------------------------------------------------
(* Actions: a FinancialPing call of one process, statement by statement *)

\* The arguments of FormRequest in these calls: only product_brand varies.
LockedFormArgs(pb) ==
  [DefaultArgs EXCEPT !.product_brand = pb, !.lock_ok = TRUE,
                      !.granted = "read"]

AccessOf(op) ==
  IF op \in {"IsPingTime", "FormRequest"} THEN kReadAccess ELSE kWriteAccess

\* A process enters one of the calls.
ProcCall(p) ==
  /\ lk.proc[p].pc \in {"idle", "returned"}
  /\ \E op \in LockedOps :
       lk' = [lk EXCEPT !.proc[p] = [NoProc EXCEPT !.pc = "locking",
                                                   !.op = op]]
  /\ UNCHANGED <<reg, brand, now, ret, form, net>>

\* ScopedRlzValueStoreLock lock; RlzValueStore* store = lock.GetStore();
\* if (!store || !store->HasAccess(...)) return false;
\* The acquisition fails when another process keeps the mutex for the whole
\* wait, and may fail for other reasons.  SetURLRequestContext tests the
\* store only.
ProcLock(p) ==
  LET me == lk.proc[p]
  IN  /\ me.pc = "locking"
      /\ \E failed \in (IF MutexFree(lk.holder) THEN BOOLEAN ELSE {TRUE}),
            granted \in AccessLevels :
           LET store == GetStore(failed)
               pass == IF me.op = "SetURLRequestContext"
                         THEN store # NULL
                         ELSE StoreAvailable(store # NULL, granted,
                                             AccessOf(me.op))
           IN  lk' = [lk EXCEPT
                        !.holder = IF failed THEN @ ELSE p,
                        !.proc[p] =
                          IF pass
                            THEN [me EXCEPT !.pc = "body", !.store = store]
                            ELSE [NoProc EXCEPT !.pc = "exiting",
                                    !.store = store,
                                    !.exit = IF store = NULL
                                               THEN "lock failed"
                                               ELSE "no access"]]
      /\ UNCHANGED <<reg, brand, now, ret, form, net>>

\* The statements of the call up to its first return, or up to the read of
\* the pending events in IsPingTime.
ProcBody(p) ==
  LET me == lk.proc[p]
      done(result, r) ==
        /\ lk' = [lk EXCEPT !.proc[p] = [me EXCEPT !.pc = "exiting",
                                           !.result = result,
                                           !.exit = "end"],
                            !.g_context = IF me.op = "SetURLRequestContext"
                                            THEN TRUE ELSE @]
        /\ reg' = r
  IN  /\ me.pc = "body"
      /\ CASE me.op = "IsPingTime" ->
                LET rp == ReadPingTime(reg, brand, "CHROME")
                    r == GetPingTimesRegKey(reg, brand, KEY_READ).reg
                IN  IF NeverPinged(rp) \/ ClockWasReset(Interval(now, rp.time))
                      THEN done(TRUE, r)
                      ELSE /\ lk' = [lk EXCEPT !.proc[p].pc = "events",
                                               !.proc[p].rp = rp]
                           /\ reg' = r
           [] me.op = "UpdateLastPingTime" ->
                LET c == WritePingTime(reg, brand, "CHROME", now, TRUE)
                IN  done(c.result, c.reg)
           [] me.op = "ClearLastPingTime" ->
                LET c == ClearPingTime(reg, brand, "CHROME", TRUE)
                IN  done(c.result, c.reg)
           [] me.op = "FormRequest" ->
                \E pb \in (IF brand = "" THEN {NULL} ELSE {brand, ""}) :
                  IF brand # "" /\ BrandMismatch(brand, pb)
                    THEN /\ lk' = [lk EXCEPT !.proc[p] =
                                     [NoProc EXCEPT !.pc = "exiting",
                                        !.store = me.store,
                                        !.exit = "brand mismatch"]]
                         /\ reg' = reg
                    ELSE done(FormRequest(reg, brand, LockedFormArgs(pb))
                                .outcome = "true",
                              FormRequestStore(reg, brand,
                                               LockedFormArgs(pb)))
           [] OTHER -> done(TRUE, reg)
      /\ UNCHANGED <<brand, now, ret, form, net>>

\* IsPingTime from its call of GetProductEventsAsCgi to its last return.
ProcEvents(p) ==
  LET me == lk.proc[p]
      has_events == GetProductEventsAsCgi(reg, brand, "CHROME").result
  IN  /\ me.pc = "events"
      /\ lk' = [lk EXCEPT !.proc[p] =
                  [me EXCEPT !.pc = "exiting", !.exit = "end",
                     !.result = Interval(now, me.rp.time)
                                  >= PingInterval(has_events)]]
      /\ reg' = GetEventsRegKey(reg, brand, kEventsSubkeyName, "CHROME",
                                KEY_READ).reg
      /\ UNCHANGED <<brand, now, ret, form, net>>

\* The end of the scope: the lock object is destroyed.
ProcUnlock(p) ==
  /\ lk.proc[p].pc = "exiting"
  /\ lk' = [lk EXCEPT !.holder = ReleaseOnExit(@, p),
                      !.proc[p] = [NoProc EXCEPT !.pc = "returned",
                                                 !.exit = lk.proc[p].exit]]
  /\ UNCHANGED <<reg, brand, now, ret, form, net>>

\* What a process does once it is inside a call.
ProcRuns(p) ==
  ProcLock(p) \/ ProcBody(p) \/ ProcEvents(p) \/ ProcUnlock(p)

----------------------------------------------------------------------------
(* Actions: UpdateLastPingTime and ClearLastPingTime of several products *)

\* Two products of the Product enumeration and one value outside it.
PingProducts == {"CHROME", "IE_TOOLBAR", "NO_SUCH_PRODUCT"}

\* The system clock moves forward.
ClockAdvances ==
  /\ \E t \in ClockValues : t > now /\ now' = t
  /\ UNCHANGED <<lk, net, reg, brand, ret, form>>

\* A process enters UpdateLastPingTime(product) or
\* ClearLastPingTime(product).
PingTimeCall(p) ==
  /\ lk.proc[p].pc = "idle"
  /\ \E op \in {"UpdateLastPingTime", "ClearLastPingTime"},
        product \in PingProducts :
       lk' = [lk EXCEPT !.proc[p] = [NoProc EXCEPT !.pc = "locking",
                                                   !.op = op,
                                                   !.product = product]]
  /\ UNCHANGED <<reg, brand, now, ret, form, net>>

\* uint64 now = GetSystemTimeAsInt64();
ReadClock(p) ==
  LET me == lk.proc[p]
  IN  /\ me.pc = "body" /\ me.op = "UpdateLastPingTime"
      /\ lk' = [lk EXCEPT !.proc[p] = [me EXCEPT !.pc = "write",
                                                 !.now = now]]
      /\ UNCHANGED <<reg, brand, now, ret, form, net>>

\* return store->WritePingTime(product, now);
WriteClock(p) ==
  LET me == lk.proc[p]
  IN  /\ me.pc = "write"
      /\ \E write_ok \in BOOLEAN :
           LET c == WritePingTime(reg, brand, me.product, ToInt64(me.now),
                                  write_ok)
           IN  /\ reg' = c.reg
               /\ lk' = [lk EXCEPT !.proc[p] = [me EXCEPT !.pc = "exiting",
                                                  !.now = 0,
                                                  !.result = c.result,
                                                  !.exit = "end"]]
      /\ UNCHANGED <<brand, now, ret, form, net>>

\* return store->ClearPingTime(product);
ClearClock(p) ==
  LET me == lk.proc[p]
  IN  /\ me.pc = "body" /\ me.op = "ClearLastPingTime"
      /\ \E delete_ok \in BOOLEAN :
           LET c == ClearPingTime(reg, brand, me.product, delete_ok)
           IN  /\ reg' = c.reg
               /\ lk' = [lk EXCEPT !.proc[p] = [me EXCEPT !.pc = "exiting",
                                                  !.result = c.result,
                                                  !.exit = "end"]]
      /\ UNCHANGED <<brand, now, ret, form, net>>

\* The end of the scope: the lock object is destroyed, the caller takes the
\* result, and the process is free to call again.
PingTimeReturn(p) ==
  /\ lk.proc[p].pc = "exiting"
  /\ lk' = [lk EXCEPT !.holder = ReleaseOnExit(@, p), !.proc[p] = NoProc]
  /\ UNCHANGED <<reg, brand, now, ret, form, net>>

----------------------------------------------------------------------------
(* Actions: FinancialPing::PingServer, statement by statement *)

\* The chunks *response holds after one more is appended.  Beyond
\* MaxChunks + 1 only the parity of the count is kept.
Appended(got) == IF got = MaxChunks + 2 THEN MaxChunks + 1 ELSE got + 1

\* if (!response) return false; response->clear();
CallPingServer ==
  /\ net.pc = "idle"
  /\ \E t \in Transports, sv \in Servers, response_null \in BOOLEAN :
       net' = IF response_null
                THEN [NoPing EXCEPT !.pc = "returned", !.transport = t,
                                    !.server = sv, !.result = FALSE]
                ELSE [NoPing EXCEPT !.pc = IF t = "WinInet" THEN "open"
                                                            ELSE "start",
                                    !.transport = t, !.server = sv,
                                    !.dirty = FALSE]
  /\ UNCHANGED <<reg, brand, now, ret, form, lk>>

\* InternetOpenA, InternetConnectA, HttpOpenRequestA: a null handle ends
\* the call.
InternetOpen ==
  /\ net.pc = "open"
  /\ \E ok \in BOOLEAN :
       net' = IF ok THEN [net EXCEPT !.pc = "send"]
                    ELSE [net EXCEPT !.pc = "returned", !.result = FALSE]
  /\ UNCHANGED <<reg, brand, now, ret, form, lk>>

\* HttpSendRequest: fails off-line, and when the platform gives up on a
\* server that stays silent.
HttpSendRequest ==
  /\ net.pc = "send"
  /\ \E ok \in (IF net.server.silent THEN {FALSE} ELSE BOOLEAN) :
       net' = IF ok THEN [net EXCEPT !.pc = "status"]
                    ELSE [net EXCEPT !.pc = "returned", !.result = FALSE]
  /\ UNCHANGED <<reg, brand, now, ret, form, lk>>

\* if (!HttpQueryInfo(...) || 200 != status) return false;
HttpQueryInfo ==
  /\ net.pc = "status"
  /\ \E ok \in BOOLEAN :
       net' = IF ok /\ net.server.status = 200
                THEN [net EXCEPT !.pc = "read"]
                ELSE [net EXCEPT !.pc = "returned", !.result = FALSE]
  /\ UNCHANGED <<reg, brand, now, ret, form, lk>>

\* One turn of: while (InternetReadFile(...) && bytes_read > 0) append;
\* followed by return true when the loop ends.
InternetReadFile ==
  /\ net.pc = "read"
  /\ \E ok \in BOOLEAN :
       LET more == net.server.endless \/ net.got < net.server.body
       IN  net' = IF ok /\ more
                    THEN [net EXCEPT !.got = Appended(@)]
                    ELSE [net EXCEPT !.pc = "returned", !.result = TRUE]
  /\ UNCHANGED <<reg, brand, now, ret, form, lk>>

\* CHECK(g_context); the fetch and the five-minute QuitClosure are posted.
FetcherStart ==
  /\ net.pc = "start"
  /\ net' = IF lk.g_context THEN [net EXCEPT !.pc = "run"]
                            ELSE [net EXCEPT !.pc = "crashed"]
  /\ UNCHANGED <<reg, brand, now, ret, form, lk>>

\* loop.Run() ends with OnURLFetchComplete or with the delayed QuitClosure.
\* A fetch completes with the server's status and whole body, or with a
\* network error; it cannot complete while the server is silent or still
\* sending.  The fetcher reports no response code before it completes.
LoopRun ==
  /\ net.pc = "run"
  /\ \E how \in {"complete", "error", "timeout"} :
       /\ how = "complete" => (~net.server.silent /\ ~net.server.endless)
       /\ net' = [net EXCEPT !.pc = "after",
                    !.code = IF how = "complete" THEN net.server.status
                                                 ELSE -1]
  /\ UNCHANGED <<reg, brand, now, ret, form, lk>>

\* if (fetcher->GetResponseCode() != 200) return false;
\* return fetcher->GetResponseAsString(response);
FetcherResult ==
  /\ net.pc = "after"
  /\ net' = IF net.code # 200
              THEN [net EXCEPT !.pc = "returned", !.result = FALSE]
              ELSE [net EXCEPT !.pc = "returned", !.result = TRUE,
                               !.got = net.server.body]
  /\ UNCHANGED <<reg, brand, now, ret, form, lk>>

\* The caller takes the result.
PingServerReturn ==
  /\ net.pc = "returned"
  /\ net' = NoPing
  /\ UNCHANGED <<reg, brand, now, ret, form, lk>>

\* The process that failed the CHECK is started again.
ProcessRestart ==
  /\ net.pc = "crashed"
  /\ net' = NoPing
  /\ lk' = [lk EXCEPT !.g_context = FALSE]
  /\ UNCHANGED <<reg, brand, now, ret, form>>

\* FinancialPing::SetURLRequestContext as one step.
CallSetURLRequestContext ==
  /\ net.pc = "idle"
  /\ \E lock_failed \in BOOLEAN :
       lk' = [lk EXCEPT !.g_context = IF GetStore(lock_failed) # NULL
                                        THEN TRUE ELSE @]
  /\ UNCHANGED <<reg, brand, now, ret, form, net>>

\* The statements of a PingServer call in progress.
PingServerRuns ==
  \/ InternetOpen
  \/ HttpSendRequest
  \/ HttpQueryInfo
  \/ InternetReadFile
  \/ FetcherStart
  \/ LoopRun
  \/ FetcherResult

----------------------------------------------------------------------------
(* Specifications *)

Next ==
  \/ Return
  \/ Tick
  \/ SetBrand
  \/ CallWritePingTime
  \/ CallClearPingTime
  \/ CallAddProductEvent
  \/ CallClearProductEvent
  \/ CallWriteAccessPointRlz
  \/ CallClearAccessPointRlz
  \/ CallIsPingTime
  \/ CallUpdateLastPingTime
  \/ CallClearLastPingTime
  \/ CallFormRequest
  \/ CallReadPingTime
  \/ CallClearAllProductEvents
  \/ CallAddStatefulEvent
  \/ CallIsStatefulEvent
  \/ CallClearAllStatefulEvents
  \/ CallCollectGarbage

Spec == Init /\ [][Next]_vars

\* The scheduler and the ping times, in one namespace.
NextPing ==
  \/ Return
  \/ Tick
  \/ CallWritePingTime
  \/ CallClearPingTime
  \/ CallAddProductEvent
  \/ CallClearProductEvent
  \/ CallIsPingTime

SpecPing == Init /\ [][NextPing]_vars

\* The request builder, in one namespace.
NextForm ==
  \/ Return
  \/ CallAddProductEvent
  \/ CallClearProductEvent
  \/ CallWriteAccessPointRlz
  \/ CallClearAccessPointRlz
  \/ CallFormRequest

SpecForm == Init /\ [][NextForm]_vars

\* The value store with its garbage collector, in one namespace.
NextStore ==
  \/ Return
  \/ CallUpdateLastPingTime
  \/ CallReadPingTime
  \/ CallClearPingTime
  \/ CallAddProductEvent
  \/ CallClearProductEvent
  \/ CallClearAllProductEvents
  \/ CallAddStatefulEvent
  \/ CallIsStatefulEvent
  \/ CallClearAllStatefulEvents
  \/ CallWriteAccessPointRlz
  \/ CallClearAccessPointRlz
  \/ CallCollectGarbage

SpecStore == Init /\ [][NextStore]_vars

\* The FinancialPing calls over the store, in one namespace.
NextSched ==
  \/ Return
  \/ CallAddProductEvent
  \/ CallIsPingTime
  \/ CallUpdateLastPingTime
  \/ CallClearLastPingTime
  \/ CallFormRequest

SpecSched == Init /\ [][NextSched]_vars

\* Processes of one user and one brand scope calling FinancialPing.  A
\* process that has entered a call keeps running.
InitLock == Init /\ brand = "TEST" /\ reg = EmptyRegistry

NextLock ==
  \/ \E p \in Procs : ProcCall(p)
  \/ \E p \in Procs : ProcLock(p)
  \/ \E p \in Procs : ProcBody(p)
  \/ \E p \in Procs : ProcEvents(p)
  \/ \E p \in Procs : ProcUnlock(p)

SpecLock ==
  InitLock /\ [][NextLock]_vars /\ \A p \in Procs : WF_vars(ProcRuns(p))

\* The pending and the stateful events of the store, in one namespace.
NextEvents ==
  \/ Return
  \/ CallAddProductEvent
  \/ CallClearProductEvent
  \/ CallClearAllProductEvents
  \/ CallAddStatefulEvent
  \/ CallIsStatefulEvent
  \/ CallClearAllStatefulEvents

SpecEvents == Init /\ [][NextEvents]_vars

\* Processes of one user and one brand scope recording and clearing ping
\* times of several products, while the clock moves forward.
NextTimes ==
  \/ ClockAdvances
  \/ \E p \in Procs : PingTimeCall(p)
  \/ \E p \in Procs : ProcLock(p)
  \/ \E p \in Procs : ReadClock(p)
  \/ \E p \in Procs : WriteClock(p)
  \/ \E p \in Procs : ClearClock(p)
  \/ \E p \in Procs : PingTimeReturn(p)

SpecTimes == InitLock /\ [][NextTimes]_vars

\* PingServer in either build.  A call in progress keeps running: the
\* platform's calls return and the message loop runs its tasks.
InitNet == Init /\ brand = "" /\ reg = EmptyRegistry

NextNet ==
  \/ CallSetURLRequestContext
  \/ CallPingServer
  \/ InternetOpen
  \/ HttpSendRequest
  \/ HttpQueryInfo
  \/ InternetReadFile
  \/ FetcherStart
  \/ LoopRun
  \/ FetcherResult
  \/ PingServerReturn
  \/ ProcessRestart

SpecNet == InitNet /\ [][NextNet]_vars /\ WF_vars(PingServerRuns)

----------------------------------------------------------------------------
(* What the store holds, read off the registry directly *)

PingTimesPath == AppendBrandToString(Append(kLibKeyName, "PTimes"), brand)

EventsPath(product) ==
  Append(AppendBrandToString(Append(kLibKeyName, "Events"), brand),
         GetProductName(product))

RlzsPath == AppendBrandToString(Append(kLibKeyName, "RLZs"), brand)

\* The ping-time records the store holds for the product.
PingTimeRecords(product) ==
  {v \in reg.vals : v.key = PingTimesPath
                    /\ v.name = ValueName(GetProductName(product))}

\* The pending events the store holds for the product.
PendingEvents(product) ==
  IF GetProductName(product) = NULL THEN {}
  ELSE {v.name : v \in {w \in reg.vals : w.key = EventsPath(product)}}

\* The access points whose stored RLZ value is not empty.
LivePoints ==
  {ap \in 1 .. (LAST_ACCESS_POINT - 1) :
     \E v \in reg.vals : v.key = RlzsPath /\ v.name = GetAccessPointName(ap)
                          /\ v.str # ""}

IsPingTimeRan == ret.op = "IsPingTime"

StoreWasAvailable == ret.lock_ok /\ ret.granted \in {"read", "write"}

\* now - lastPingTime in the width of the time words.
Elapsed(t) ==
  LET d == now - t
  IN  IF d > MaxInt64 THEN d - Pow2(TimeBits)
      ELSE IF d < MinInt64 THEN d + Pow2(TimeBits) ELSE d

----------------------------------------------------------------------------
(* C1 *)

\* C1 as stated: whenever the store holds no ping-time record for the
\* product, IsPingTime returns true.
C1_Original ==
  (IsPingTimeRan /\ PingTimeRecords(ret.product) = {}) => ret.result

\* C1 amended: IsPingTime returns true when the store holds no ping-time
\* record for the product, provided the lock was acquired and the store
\* grants read access.
C1_NeverPinged ==
  (IsPingTimeRan /\ StoreWasAvailable /\ PingTimeRecords(ret.product) = {})
    => ret.result

\* A never-pinged product without events is reported due at clock 0.
C1_Witness ==
  /\ IsPingTimeRan /\ StoreWasAvailable /\ ret.result
  /\ PingTimeRecords(ret.product) = {}
  /\ PendingEvents(ret.product) = {}
  /\ now = 0

----------------------------------------------------------------------------
(* C2 *)

\* C2 as stated: a stored ping time with a negative interval makes
\* IsPingTime return true, whatever noDelay and the pending events are.
C2_Original ==
  (IsPingTimeRan
   /\ \E v \in PingTimeRecords(ret.product) : Elapsed(v.num) < 0)
    => ret.result

\* C2 amended: the same, provided the lock was acquired and the store
\* grants read access.
C2_ClockRollback ==
  (IsPingTimeRan /\ StoreWasAvailable
   /\ \E v \in PingTimeRecords(ret.product) : Elapsed(v.num) < 0)
    => ret.result

\* A ping time one tick in the future, no events, no noDelay.
C2_Witness ==
  /\ IsPingTimeRan /\ StoreWasAvailable /\ ret.result /\ ~ret.flag
  /\ PendingEvents(ret.product) = {}
  /\ \E v \in PingTimeRecords(ret.product) : v.num > now /\ Elapsed(v.num) < 0

----------------------------------------------------------------------------
(* C3 *)

\* C3 as stated: with a pending event and noDelay, IsPingTime returns
\* true whatever the interval.
C3_Original ==
  (IsPingTimeRan /\ ret.flag /\ PendingEvents(ret.product) # {}) => ret.result

\* C3 amended: the same, provided the lock was acquired and the store
\* grants read access.
C3_NoDelayWithEvents ==
  (IsPingTimeRan /\ StoreWasAvailable /\ ret.flag
   /\ PendingEvents(ret.product) # {})
    => ret.result

\* noDelay forces a ping although the interval is below both thresholds.
C3_Witness ==
  /\ IsPingTimeRan /\ StoreWasAvailable /\ ret.flag /\ ret.result
  /\ PendingEvents(ret.product) # {}
  /\ \E v \in PingTimeRecords(ret.product) :
       Elapsed(v.num) >= 0 /\ Elapsed(v.num) < kEventsPingInterval

----------------------------------------------------------------------------
(* C4 *)

Threshold(product) ==
  IF PendingEvents(product) = {} THEN kNoEventsPingInterval
                                 ELSE kEventsPingInterval

\* C4 as stated, read with the store available and a ping time stored:
\* IsPingTime returns true if and only if the elapsed interval has reached
\* the threshold of the product (no-events or events).
C4_Original ==
  (IsPingTimeRan /\ StoreWasAvailable)
    => \A v \in PingTimeRecords(ret.product) :
         ret.result <=> (Elapsed(v.num) >= Threshold(ret.product))

\* C4 amended: when the lock was acquired, the store grants read access, a
\* ping time is stored, the elapsed interval is not negative and the call
\* is not a noDelay call for a product with pending events, IsPingTime
\* returns true if and only if the interval has reached the threshold.
C4_Threshold ==
  (IsPingTimeRan /\ StoreWasAvailable)
    => \A v \in PingTimeRecords(ret.product) :
         (Elapsed(v.num) >= 0
          /\ ~(ret.flag /\ PendingEvents(ret.product) # {}))
           => (ret.result <=> (Elapsed(v.num) >= Threshold(ret.product)))

\* An interval between the two thresholds: due with events only.
C4_Witness ==
  /\ IsPingTimeRan /\ StoreWasAvailable /\ ~ret.flag /\ ret.result
  /\ PendingEvents(ret.product) # {}
  /\ \E v \in PingTimeRecords(ret.product) :
       Elapsed(v.num) >= kEventsPingInterval
       /\ Elapsed(v.num) < kNoEventsPingInterval

----------------------------------------------------------------------------
(* C5 *)

----------------------------------------------------------------------------
(* C6 *)

FormRequestRan == form.called

\* C6: FormRequest returns false and yields no request whenever
\* accessPoints is null or empty, or signature is null or empty, or a brand
\* namespace is active and the supplied brand is not equal to it.
C6_RejectsBadArguments ==
  (FormRequestRan
   /\ \/ form.args.points_null
      \/ UpToSentinel(form.args.access_points) = <<>>
      \/ form.args.product_signature \in {NULL, ""}
      \/ (brand # "" /\ form.args.product_brand # brand))
    => (form.out.outcome = "false" /\ form.out.request = <<>>)

----------------------------------------------------------------------------
(* C7 *)

\* The points of S in enumeration order.
InEnumerationOrder(S) ==
  CHOOSE q \in [1 .. Cardinality(S) -> S] :
    \A i, j \in 1 .. Cardinality(S) : i < j => q[i] < q[j]

----------------------------------------------------------------------------
(* C8 *)

\* C8: for a product with a pending event the list handed to the RLZ
\* encoder is the caller's accessPoints, whatever other points store.
C8_CallerPoints ==
  (FormRequestRan /\ form.out.outcome = "true"
   /\ PendingEvents(form.args.product) # {})
    => form.out.points = form.args.access_points

\* The caller passes point 1 only while another point is live.
C8_Witness ==
  /\ FormRequestRan /\ form.out.outcome = "true"
  /\ PendingEvents(form.args.product) # {}
  /\ form.args.access_points = <<1, NO_ACCESS_POINT>>
  /\ LivePoints \ {1} # {}
  /\ form.out.points = <<1, NO_ACCESS_POINT>>

----------------------------------------------------------------------------
(* C9 *)

Rank(k) ==
  CASE k = "&brand" -> 1 [] k = "&id" -> 2 [] k = "&lang" -> 3
    [] k = "&events" -> 4 [] k = "&rlz" -> 5 [] k = "&machineid" -> 6
    [] OTHER -> 0

Fields(q) == {q[i] : i \in 3 .. Len(q)}

\* The field k is in q exactly when wanted, and then with value s.
Optional(q, k, s) ==
  /\ (\E f \in Fields(q) : f.k = k) <=> (s # NULL)
  /\ \A f \in Fields(q) : f.k = k => f.s = s

\* C9: a returned request is the ping path, the signature, then the
\* present fields in the order brand, id, lang, events, RLZ, machine id;
\* an absent field contributes nothing and the machine id appears only
\* for a product with pending events when exclusion was not requested.
C9_RequestLayout ==
  (FormRequestRan /\ form.out.outcome = "true")
    => LET q == form.out.request
           a == form.args
       IN  /\ Len(q) >= 2
           /\ q[1] = Piece("path", kFinancialPingPath)
           /\ q[2] = Piece("?signature", a.product_signature)
           /\ \A i \in 3 .. Len(q) : Rank(q[i].k) > 0
           /\ \A i, j \in 3 .. Len(q) : i < j => Rank(q[i].k) < Rank(q[j].k)
           /\ Optional(q, "&brand", a.product_brand)
           /\ Optional(q, "&id", a.product_id)
           /\ Optional(q, "&lang", a.product_lang)
           /\ (\E f \in Fields(q) : f.k = "&events")
                <=> (PendingEvents(a.product) # {})
           /\ \A f \in Fields(q) :
                f.k = "&events" => f.ev = PendingEvents(a.product)
           /\ (\E f \in Fields(q) : f.k = "&machineid")
                => (PendingEvents(a.product) # {} /\ ~a.exclude_machine_id)

\* A request with every field.
C9_Witness ==
  /\ FormRequestRan /\ form.out.outcome = "true"
  /\ Len(form.out.request) = 8
  /\ {f.k : f \in Fields(form.out.request)}
       = {"&brand", "&id", "&lang", "&events", "&rlz", "&machineid"}

----------------------------------------------------------------------------
(* C10 *)

\* C10: when FormRequest returns false and request is not null, the
\* request string is empty, whatever it held before the call.
C10_NoPartialOutput ==
  (FormRequestRan /\ ~form.args.request_null /\ form.out.outcome = "false")
    => form.out.request = <<>>

\* A brand mismatch, with left-over content in the request.
C10_Witness ==
  /\ FormRequestRan /\ ~form.args.request_null
  /\ form.out.outcome = "false" /\ form.out.request = <<>>
  /\ form.args.prior # <<>>
  /\ form.args.lock_ok /\ form.args.granted = "read"
  /\ ~form.args.points_null /\ form.args.product_signature # NULL
  /\ brand # "" /\ form.args.product_brand = ""

----------------------------------------------------------------------------
(* C11 *)

CollectGarbageRan == ret.op = "CollectGarbage"

\* The keys directly below a key.
Subkeys(r, path) ==
  {k \in r.keys : Len(k) = Len(path) + 1 /\ SubSeq(k, 1, Len(path)) = path}

\* The keys the run removed before its visit i.
RemovedBefore(log, i) ==
  {log[j].path : j \in {n \in 1 .. (i - 1) : log[n].removed}}

\* C11: CollectGarbage removes a key only if, when it removes it, the key
\* has no subkey and no value (every subkey it had was removed earlier in
\* the same run); it removes nothing but the keys it visits, no value is
\* lost, and every key on the path to a stored value is still there.
C11_RemovesOnlyEmpty ==
  [][ret'.op = "CollectGarbage" =>
       /\ reg'.vals = reg.vals
       /\ \A v \in reg'.vals : Prefixes(v.key) \subseteq reg'.keys
       /\ \A k \in reg.keys \ reg'.keys :
            \E i \in DOMAIN ret'.log :
              ret'.log[i].path = k /\ ret'.log[i].removed
       /\ \A i \in DOMAIN ret'.log :
            ret'.log[i].removed =>
              /\ \A v \in reg.vals : v.key # ret'.log[i].path
              /\ Subkeys(reg, ret'.log[i].path)
                   \subseteq RemovedBefore(ret'.log, i)
              /\ ret'.log[i].subkeys = 0 /\ ret'.log[i].values = 0]_vars

\* A run that removed a key and left an ancestor of it that still leads to
\* stored values.
C11_Witness ==
  /\ CollectGarbageRan
  /\ reg.vals # {}
  /\ \E i, j \in DOMAIN ret.log :
       /\ ret.log[i].removed
       /\ ret.log[j].existed /\ ~ret.log[j].removed
       /\ ret.log[j].path \in Prefixes(ret.log[i].path)
       /\ ret.log[j].path # ret.log[i].path

----------------------------------------------------------------------------
(* C12 *)

\* Whether the entry a clear call targeted can still be read back.
StillReadable ==
  CASE ret.op = "ClearPingTime" ->
         ReadPingTime(reg, brand, ret.product).found
    [] ret.op = "ClearAccessPointRlz" ->
         ReadAccessPointRlz(reg, brand, ret.ap, kMaxRlzLength + 1).rlz # ""
    [] ret.op = "ClearProductEvent" ->
         ret.str \in ReadProductEvents(reg, brand, ret.product).events
    [] ret.op = "ClearAllProductEvents" ->
         ReadProductEvents(reg, brand, ret.product).events # {}
    [] ret.op = "ClearAllStatefulEvents" ->
         \E e \in Events : IsStatefulEvent(reg, brand, ret.product, e)
    [] OTHER -> FALSE

\* C12: a clear operation that returns success has left nothing of its
\* target for the corresponding read operation to find, whatever the
\* registry's delete step did.
C12_ClearVerifies == ret.result => ~StillReadable

----------------------------------------------------------------------------
(* C13 *)

SchedulerOps == {"IsPingTime", "UpdateLastPingTime", "ClearLastPingTime"}

\* C13: when the lock is not acquired no store is produced, and IsPingTime,
\* UpdateLastPingTime, ClearLastPingTime and FormRequest return false and
\* leave the registry exactly as it was.
C13_LockFailure ==
  [][/\ GetStore(TRUE) = NULL
     /\ (ret'.op \in SchedulerOps /\ ~ret'.lock_ok)
          => (~ret'.result /\ reg' = reg)
     /\ (form'.called /\ ~form'.args.lock_ok)
          => (form'.out.outcome = "false" /\ reg' = reg)]_vars

\* UpdateLastPingTime called by a process with write access whose lock
\* acquisition failed.
C13_Witness ==
  /\ ret.op = "UpdateLastPingTime"
  /\ ~ret.lock_ok /\ ret.granted = "write"
  /\ ~ret.result

----------------------------------------------------------------------------
(* C14 *)

\* The processes that hold a store handle.
StoreHolders == {p \in Procs : lk.proc[p].store # NULL}

\* The processes between the first and the last store access of a call.
InStore == {p \in Procs : lk.proc[p].pc \in {"body", "events"}}

\* What the store must hold when a call that ran to its end is about to
\* release the lock, if no other process touched the store meanwhile.
ResultIsCurrent(p) ==
  LET me == lk.proc[p]
      rp == ReadPingTime(reg, brand, "CHROME")
  IN  CASE me.op = "IsPingTime" ->
             me.result = IsPingTime(reg, brand, now, "CHROME", FALSE, TRUE,
                                    "read")
        [] me.op = "UpdateLastPingTime" ->
             me.result => (rp.found /\ rp.time = now)
        [] me.op = "ClearLastPingTime" -> me.result => ~rp.found
        [] OTHER -> TRUE

\* C14: at most one process at a time holds a store handle, and it is the
\* process holding the mutex; a call is inside its store accesses only
\* while it holds the mutex, from its first access to its return, so what
\* it returns is what the store holds when it releases the lock.
C14_OneStoreHolder ==
  /\ Cardinality(StoreHolders) <= 1
  /\ \A p \in StoreHolders : lk.holder = p
  /\ \A p \in InStore : lk.holder = p /\ p \in StoreHolders
  /\ \A p \in Procs :
       (lk.proc[p].pc = "exiting" /\ lk.proc[p].exit = "end")
         => (lk.holder = p /\ ResultIsCurrent(p))

\* One process is between the two store reads of IsPingTime while another
\* has failed to take the lock and is about to return.
C14_Witness ==
  \E p, q \in Procs :
    /\ p # q
    /\ lk.proc[p].pc = "events"
    /\ lk.proc[q].pc = "exiting"
    /\ lk.proc[q].exit = "lock failed"

----------------------------------------------------------------------------
(* C15 *)

\* Everything the read operations return under brand b.
Readable(r, b) ==
  [ptimes |-> [p \in Products |-> ReadPingTime(r, b, p)],
   rlzs |-> [ap \in 1 .. (LAST_ACCESS_POINT - 1) |->
               ReadAccessPointRlz(r, b, ap, kMaxRlzLength + 1)],
   events |-> [p \in Products |-> ReadProductEvents(r, b, p)],
   stateful |-> [p \in Products |->
                   {e \in Events : IsStatefulEvent(r, b, p, e)}]]

\* C15: no operation running under the active brand changes what any read
\* operation returns under another brand (or under no brand), and no key
\* removed from the registry was on the path to a stored value.
C15_NamespaceIsolation ==
  [][/\ reg' # reg =>
          \A b \in Brands \ {brand} : Readable(reg', b) = Readable(reg, b)
     /\ \A k \in reg.keys \ reg'.keys :
          ret'.op = "CollectGarbage"
            => \A v \in reg.vals : k \notin Prefixes(v.key)]_vars

\* CollectGarbage has removed a key under a brand while the store holds
\* ping times, RLZ values and events outside that brand.
C15_Witness ==
  /\ brand # ""
  /\ CollectGarbageRan
  /\ \E i \in DOMAIN ret.log : ret.log[i].removed
  /\ ReadPingTime(reg, "", "CHROME").found
  /\ ReadAccessPointRlz(reg, "", 1, kMaxRlzLength + 1).rlz # ""
  /\ ReadProductEvents(reg, "", "CHROME").events # {}
  /\ IsStatefulEvent(reg, "", "CHROME", "W1S")

----------------------------------------------------------------------------
(* C16 *)

PingServerReturned == net.pc = "returned"

\* The whole body of the server's answer is in *response.
BodyComplete ==
  ~net.server.silent /\ ~net.server.endless /\ net.got = net.server.body

\* C16: PingServer returns true only for a status of 200 with the whole
\* body received, and when it returns false *response is empty.
C16_AllOrNothing ==
  PingServerReturned =>
    IF net.result THEN net.server.status = 200 /\ BodyComplete
                  ELSE net.got = 0 /\ ~net.dirty

----------------------------------------------------------------------------
(* C17 *)

\* C17: every PingServer call comes to an end.
C17_PingServerReturns ==
  [](net.pc # "idle" => <>(net.pc \in {"returned", "crashed", "idle"}))

----------------------------------------------------------------------------
(* C18 *)

\* The store operations that take a product, and those that take an access
\* point.
ProductOps ==
  {"WritePingTime", "UpdateLastPingTime", "ReadPingTime", "ClearPingTime",
   "ClearLastPingTime", "AddProductEvent", "ClearProductEvent",
   "ClearAllProductEvents", "AddStatefulEvent", "IsStatefulEvent",
   "ClearAllStatefulEvents"}

PointOps == {"WriteAccessPointRlz", "ClearAccessPointRlz"}

\* C18: an operation given a product or an access point that has no name
\* returns failure and leaves the registry exactly as it was.
C18_UnknownIdentifier ==
  [][((ret'.op \in ProductOps /\ GetProductName(ret'.product) = NULL)
      \/ (ret'.op \in PointOps /\ GetAccessPointName(ret'.ap) = NULL))
       => (~ret'.result /\ reg' = reg)]_vars

----------------------------------------------------------------------------
(* C19 *)

WriterOps == {"UpdateLastPingTime", "ClearLastPingTime"}

\* C19: UpdateLastPingTime and ClearLastPingTime called without the lock or
\* without write access return false and leave the registry as it was;
\* IsPingTime and FormRequest leave the registry as it was whatever they
\* return; so a FinancialPing call changes the registry only as a writer
\* holding the lock with write access.
C19_WritesNeedWriteAccess ==
  [][/\ (ret'.op \in WriterOps /\ ~(ret'.lock_ok /\ ret'.granted = "write"))
          => (~ret'.result /\ reg' = reg)
     /\ (ret'.op = "IsPingTime" \/ form'.called) => reg' = reg
     /\ (reg' # reg /\ (ret'.op \in SchedulerOps \/ form'.called))
          => (ret'.op \in WriterOps /\ ret'.lock_ok
              /\ ret'.granted = "write")]_vars

\* UpdateLastPingTime refused for a process that holds the lock with read
\* access only, on a store that holds events.
C19_Witness ==
  /\ ret.op = "UpdateLastPingTime"
  /\ ret.lock_ok /\ ret.granted = "read"
  /\ ~ret.result
  /\ PendingEvents(ret.product) # {}

----------------------------------------------------------------------------
(* C20 *)

\* C20: a process that has returned from a call no longer holds the mutex,
\* whichever return statement it took, and whenever a process holds the
\* mutex the mutex becomes free again, so a process waiting for it can
\* take it.
C20_LockReleased ==
  /\ [](\A p \in Procs :
          lk.proc[p].pc \in {"idle", "returned"} => lk.holder # p)
  /\ \A p \in Procs : (lk.holder = p) ~> (lk.holder = 0)

\* A process has returned early, on missing access or a brand mismatch,
\* from a call in which it held the mutex, and another process holds the
\* mutex now.
C20_Witness ==
  \E p, q \in Procs :
    /\ p # q
    /\ lk.proc[p].pc = "returned"
    /\ lk.proc[p].exit \in {"no access", "brand mismatch"}
    /\ lk.holder = q

----------------------------------------------------------------------------
(* C21 *)

\* No DeleteKey of the run failed: every key it found empty, it removed.
NoDeletionFailed ==
  \A i \in DOMAIN ret.log :
    (ret.log[i].existed /\ ret.log[i].subkeys = 0 /\ ret.log[i].values = 0)
      => ret.log[i].removed

\* The containers of the library: its key with everything below it, and the
\* ancestors CollectGarbage names.
Containers(r) ==
  {k \in r.keys : kLibKeyName \in Prefixes(k)}
    \cup (r.keys \cap {kGoogleCommonKeyName, kGoogleKeyName})

IsEmptyKey(r, k) == Subkeys(r, k) = {} /\ \A v \in r.vals : v.key # k

\* C21: after a CollectGarbage in which no deletion failed, no empty
\* container of the library is left, with or without a brand, the
\* per-product event keys included.
C21_CollectsEveryEmpty ==
  (CollectGarbageRan /\ NoDeletionFailed)
    => \A k \in Containers(reg) : ~IsEmptyKey(reg, k)

----------------------------------------------------------------------------
(* C22 *)

\* The events IsStatefulEvent reports for the product.
StatefulOf(r, product) ==
  {e \in Events : IsStatefulEvent(r, brand, product, e)}

\* The events ReadProductEvents returns for the product.
PendingOf(r, product) == ReadProductEvents(r, brand, product).events

PendingOps == {"AddProductEvent", "ClearProductEvent", "ClearAllProductEvents"}

StatefulOps == {"AddStatefulEvent", "ClearAllStatefulEvents"}

\* The calls on the pending events leave every product's stateful events
\* as they were, and the calls on the stateful events leave every
\* product's pending events as they were.
SetsIndependent ==
  /\ ret'.op \in PendingOps =>
       \A p \in Products : StatefulOf(reg', p) = StatefulOf(reg, p)
  /\ ret'.op \in StatefulOps =>
       \A p \in Products : PendingOf(reg', p) = PendingOf(reg, p)

\* C22 as stated: in every state the calls on the events reach (the store
\* starts with no event), no event of a product is both pending and
\* stateful, and ClearAllProductEvents
\* leaves IsStatefulEvent as it was while ClearAllStatefulEvents leaves the
\* pending events as they were.
C22_Original ==
  [][/\ \A p \in Products : PendingOf(reg', p) \cap StatefulOf(reg', p) = {}
     /\ SetsIndependent]_vars

\* C22 (amended): the pending and the stateful events of a product are two
\* separate sets that may hold the same event; AddProductEvent,
\* ClearProductEvent and ClearAllProductEvents leave IsStatefulEvent(p, e)
\* unchanged for every product and event, and AddStatefulEvent and
\* ClearAllStatefulEvents leave the pending events of every product
\* unchanged.
C22_SetsIndependent == [][SetsIndependent]_vars

\* ClearAllProductEvents has succeeded for a product that has no pending
\* event left and still has a stateful event.
C22_Witness ==
  /\ ret.op = "ClearAllProductEvents" /\ ret.result
  /\ PendingOf(reg, ret.product) = {}
  /\ StatefulOf(reg, ret.product) # {}

----------------------------------------------------------------------------
(* C23 *)

\* The products of the Product enumeration among the calls' arguments.
EnumProducts == {q \in PingProducts : GetProductName(q) # NULL}

\* What ReadPingTime returns for the product.
Timestamp(r, product) == ReadPingTime(r, brand, product)

\* Over the step the timestamp of the product, if it stays present, does
\* not decrease.
NotDecreased(product) ==
  (Timestamp(reg, product).found /\ Timestamp(reg', product).found)
    => Timestamp(reg', product).time >= Timestamp(reg, product).time

\* The step is the write of an UpdateLastPingTime call of process p.
UpdateWrites(p) ==
  lk.proc[p].pc = "write" /\ lk'.proc[p].pc = "exiting"

\* C23: with a clock that only moves forward, no step of the processes
\* calling UpdateLastPingTime and ClearLastPingTime lowers the stored ping
\* time of a product that has one before and after the step, and the write
\* of UpdateLastPingTime(p), whatever p is, leaves the ping time of every
\* other product as ReadPingTime reported it before.
C23_MonotoneAndIsolated ==
  [][reg' # reg =>
       /\ \A q \in EnumProducts : NotDecreased(q)
       /\ \A p \in Procs :
            UpdateWrites(p) =>
              \A q \in EnumProducts \ {lk.proc[p].product} :
                Timestamp(reg', q) = Timestamp(reg, q)]_vars

\* A process has written the ping time of one product, with a clock
\* reading that is older than the clock by now, while the other product
\* keeps the earlier ping time another call gave it and another process
\* waits for the lock.
C23_Witness ==
  \E p, q \in Procs :
    /\ p # q
    /\ lk.proc[p].pc = "exiting" /\ lk.proc[p].op = "UpdateLastPingTime"
    /\ lk.proc[p].result /\ lk.proc[p].product = "CHROME"
    /\ Timestamp(reg, "CHROME").found
    /\ Timestamp(reg, "CHROME").time < now
    /\ Timestamp(reg, "IE_TOOLBAR").found
    /\ Timestamp(reg, "IE_TOOLBAR").time < Timestamp(reg, "CHROME").time
    /\ lk.proc[q].pc = "locking"

====
